---- MODULE Spec2Model ----
(***************************************************************************)
(* SpeakBuddies matchmaking server (src/server.js).                        *)
(*                                                                         *)
(* Node runs every HTTP handler and the cleanup timer callback to          *)
(* completion on one event loop, so each handler is one atomic action.     *)
(* Time is counted in minutes: REQUEST_TIMEOUT is 5, maxDuration is 10;     *)
(* the clock is observed at multiples of TickSteps, which reaches both     *)
(* an age equal to a limit and an age beyond it.                           *)
(* generateRequestId / generateChannelName build identifiers from the      *)
(* clock and a random suffix; they are modelled as fresh identifiers       *)
(* drawn from the counters nextReq / nextChan.                             *)
(*                                                                         *)
(* Two specifications share the actions.  Spec follows long runs (up to    *)
(* MaxRequests arrivals) of callers that send no userId, with one topic    *)
(* and a token builder that works.  SpecInputs follows short runs (up to   *)
(* MaxInputRequests arrivals) over every caller input, every topic and     *)
(* every outcome of the token builder.                                     *)
(***************************************************************************)
EXTENDS Integers, Sequences, FiniteSets, TLC

\* ---------------------------------------------------------------- bounds
\* arrivals followed by Spec
MaxRequests == 4
\* arrivals followed by SpecInputs
MaxInputRequests == 2
\* last clock value, in minutes
MaxTime == 15
\* topics drawn from; the catalogue holds 15, and no handler looks inside a topic
NumTopics == 2

\* ------------------------------------------------------ program constants
REQUEST_TIMEOUT == 5
MAX_DURATION == 10

NoUser == "none"
UserIds == {"alice"}
UserInputs == UserIds \cup {NoUser}
TOPICS == 1..NumTopics
TickSteps == {REQUEST_TIMEOUT}
RequestIds == 1..MaxRequests
ChannelNames == 1..MaxRequests
InputRequestIds == 1..(MaxInputRequests + 1)
InputChannelNames == 1..MaxInputRequests
NoResp == [success |-> TRUE, none |-> TRUE]

VARIABLES
    connectionRequests,  \* requestId -> request data
    waitingQueue,        \* sequence of request ids waiting for pairing
    activeChannels,      \* channelName -> channel data
    now,                 \* Date.now(), in minutes
    nextReq,             \* number of request ids generated so far, plus one
    nextChan,            \* number of channel names generated so far, plus one
    created,             \* history: every channel ever stored, in order
    responses,           \* history: requestId -> response of its request-connection
    arrivals,            \* history: request ids in arrival order
    undisturbed,         \* history: no cancel, end-call or cleanup has run yet
    lastOp               \* the last operation, its argument (for cleanup: what
                         \* it logged as removed) and its response

vars == <<connectionRequests, waitingQueue, activeChannels, now, nextReq,
          nextChan, created, responses, arrivals, undisturbed, lastOp>>

\* ------------------------------------------------------------- helpers
\* Map.set
Put(m, k, v) == [x \in DOMAIN m \cup {k} |-> IF x = k THEN v ELSE m[x]]

\* Map.delete
Delete(m, k) == [x \in DOMAIN m \ {k} |-> m[x]]

\* Array.indexOf: first index holding id, 0 when absent (JS: -1)
IndexOf(q, id) ==
    IF \E i \in 1..Len(q) : q[i] = id
    THEN CHOOSE i \in 1..Len(q) : q[i] = id /\ \A j \in 1..(i-1) : q[j] # id
    ELSE 0

\* Array.splice(i, 1) for an index inside the array
SpliceOne(q, i) == [j \in 1..(Len(q) - 1) |-> IF j < i THEN q[j] ELSE q[j+1]]

RemoveFromQueue_keep(q, id) == q

RemoveFromQueue_noGuard(q, id) ==
    IF Len(q) = 0 THEN q
    ELSE IF IndexOf(q, id) > 0 THEN SpliceOne(q, IndexOf(q, id))
    ELSE SpliceOne(q, Len(q))

\* const queueIndex = waitingQueue.indexOf(requestId);
\* if (queueIndex > -1) waitingQueue.splice(queueIndex, 1);
RemoveFromQueue(q, id) ==
    IF IndexOf(q, id) > 0 THEN SpliceOne(q, IndexOf(q, id)) ELSE q

Shift_peek(q) == q

\* what waitingQueue.shift() leaves in the array
Shift(q) == Tail(q)

GenerateRequestId_recycled(n) == ((n - 1) % 2) + 1

\* generateRequestId: a fresh identifier
GenerateRequestId(n) == n

\* generateChannelName: a fresh identifier
GenerateChannelName(n) == n

GenerateAgoraToken_noSlot(channelName, uid, built) ==
    IF built THEN <<"token", channelName, uid>>
    ELSE <<"mock_token", channelName, 0>>

\* generateAgoraToken: the built token, or the mock token when the builder throws
GenerateAgoraToken(channelName, uid, built) ==
    IF built THEN <<"token", channelName, uid>>
    ELSE <<"mock_token", channelName, uid>>

\* userId || `user_${timestamp}`: the caller's string, or "user" joined to the timestamp
UserIdOf(u, timestamp) == IF u = NoUser THEN <<"user", timestamp>> ELSE <<u>>

NewRequest(requestId, u, timestamp) ==
    [requestId |-> requestId, userId |-> UserIdOf(u, timestamp),
     timestamp |-> timestamp, status |-> "waiting"]

Paired_ownTopic(req, channelName, topic, token, uid) ==
    [requestId |-> req.requestId, userId |-> req.userId,
     timestamp |-> req.timestamp, status |-> "paired",
     channelName |-> channelName,
     topic |-> IF uid = 1 THEN (topic % NumTopics) + 1 ELSE topic,
     token |-> token, uid |-> uid]

\* the five assignments that mark a request as paired
Paired(req, channelName, topic, token, uid) ==
    [requestId |-> req.requestId, userId |-> req.userId,
     timestamp |-> req.timestamp, status |-> "paired",
     channelName |-> channelName, topic |-> topic, token |-> token, uid |-> uid]

IsWaiting(reg, id) == id \in DOMAIN reg /\ reg[id].status = "waiting"

ValidCandidate_wrongStatus(reg, id) == id \in DOMAIN reg /\ reg[id].status = "paired"

\* if (waitingRequest && waitingRequest.status === 'waiting')
ValidCandidate(reg, id) == IsWaiting(reg, id)

NewChannel_swapped(waitingRequest, request, topic, startTime) ==
    [users |-> <<request.userId, waitingRequest.userId>>,
     requests |-> <<waitingRequest.requestId, request.requestId>>,
     topic |-> topic, startTime |-> startTime, maxDuration |-> MAX_DURATION]

\* the record stored by activeChannels.set(channelName, {...})
NewChannel(waitingRequest, request, topic, startTime) ==
    [users |-> <<waitingRequest.userId, request.userId>>,
     requests |-> <<waitingRequest.requestId, request.requestId>>,
     topic |-> topic, startTime |-> startTime, maxDuration |-> MAX_DURATION]

RequestExpired_anyStatus(request, t) == (t - request.timestamp) > REQUEST_TIMEOUT

RequestExpired_wrongStatus(request, t) ==
    request.status = "paired" /\ (t - request.timestamp) > REQUEST_TIMEOUT

\* request.status === 'waiting' && (now - request.timestamp) > REQUEST_TIMEOUT
RequestExpired(request, t) ==
    request.status = "waiting" /\ (t - request.timestamp) > REQUEST_TIMEOUT

ChannelExpired_inclusive(data, t) == (t - data.startTime) >= data.maxDuration

ChannelExpired_reversed(data, t) == (data.startTime - t) > data.maxDuration

\* (now - data.startTime) > data.maxDuration
ChannelExpired(data, t) == (t - data.startTime) > data.maxDuration

\* first loop of cleanup, visiting the registry in insertion order, ids i..last
RECURSIVE SweepRequests(_, _, _, _, _)
SweepRequests(reg, q, i, last, t) ==
    IF i > last THEN [reg |-> reg, queue |-> q]
    ELSE IF i \in DOMAIN reg /\ RequestExpired(reg[i], t)
         THEN SweepRequests(Delete(reg, i), RemoveFromQueue(q, i), i + 1, last, t)
         ELSE SweepRequests(reg, q, i + 1, last, t)

\* data.requests.forEach(reqId => connectionRequests.delete(reqId))
DeleteRequests(reg, requests) == Delete(Delete(reg, requests[1]), requests[2])

\* second loop of cleanup, visiting the channels in insertion order, names c..last
RECURSIVE SweepChannels(_, _, _, _, _)
SweepChannels(chans, reg, c, last, t) ==
    IF c > last THEN [chans |-> chans, reg |-> reg]
    ELSE IF c \in DOMAIN chans /\ ChannelExpired(chans[c], t)
         THEN SweepChannels(Delete(chans, c), DeleteRequests(reg, chans[c].requests),
                            c + 1, last, t)
         ELSE SweepChannels(chans, reg, c + 1, last, t)

CheckPairingResponse_noNotFound(reg, requestId) ==
    IF requestId \notin DOMAIN reg
    THEN [success |-> TRUE, paired |-> FALSE, status |-> "waiting"]
    ELSE IF reg[requestId].status = "paired"
         THEN [success |-> TRUE, paired |-> TRUE, token |-> reg[requestId].token,
               channelName |-> reg[requestId].channelName,
               topic |-> reg[requestId].topic, uid |-> reg[requestId].uid]
         ELSE [success |-> TRUE, paired |-> FALSE, status |-> reg[requestId].status]

\* response of GET /api/check-pairing/:requestId
CheckPairingResponse(reg, requestId) ==
    IF requestId \notin DOMAIN reg
    THEN [success |-> FALSE, code |-> 404, error |-> "Request not found"]
    ELSE IF reg[requestId].status = "paired"
         THEN [success |-> TRUE, paired |-> TRUE, token |-> reg[requestId].token,
               channelName |-> reg[requestId].channelName,
               topic |-> reg[requestId].topic, uid |-> reg[requestId].uid]
         ELSE [success |-> TRUE, paired |-> FALSE, status |-> reg[requestId].status]

\* ---------------------------------------------------------------- Init
Init ==
    /\ connectionRequests = <<>>
    /\ waitingQueue = <<>>
    /\ activeChannels = <<>>
    /\ now = 0
    /\ nextReq = 1
    /\ nextChan = 1
    /\ created = <<>>
    /\ responses = <<>>
    /\ arrivals = <<>>
    /\ undisturbed = TRUE
    /\ lastOp = [op |-> "init", arg |-> 0, resp |-> NoResp]

\* ------------------------------------------------------------- actions
\* POST /api/request-connection
RequestConnection(u, topic, built1, built2) ==
    /\ LET requestId == GenerateRequestId(nextReq)
           timestamp == now
           request == NewRequest(requestId, u, timestamp)
           reg1 == Put(connectionRequests, requestId, request)
       IN  /\ nextReq' = nextReq + 1
           /\ arrivals' = Append(arrivals, requestId)
           /\ IF Len(waitingQueue) > 0
              THEN LET waitingRequestId == Head(waitingQueue)
                       shifted == Shift(waitingQueue)
                   IN  IF ValidCandidate(reg1, waitingRequestId)
                       THEN LET waitingRequest == reg1[waitingRequestId]
                                channelName == GenerateChannelName(nextChan)
                                token1 == GenerateAgoraToken(channelName, 1, built1)
                                token2 == GenerateAgoraToken(channelName, 2, built2)
                                data == NewChannel(waitingRequest, request, topic, now)
                                resp == [success |-> TRUE, requestId |-> requestId,
                                         paired |-> TRUE, token |-> token2,
                                         channelName |-> channelName,
                                         topic |-> topic, uid |-> 2]
                            IN  /\ connectionRequests' =
                                     Put(Put(reg1, waitingRequestId,
                                             Paired(waitingRequest, channelName, topic, token1, 1)),
                                         requestId,
                                         Paired(request, channelName, topic, token2, 2))
                                /\ waitingQueue' = shifted
                                /\ activeChannels' = Put(activeChannels, channelName, data)
                                /\ nextChan' = nextChan + 1
                                /\ created' = Append(created,
                                                 [name |-> channelName, data |-> data])
                                /\ responses' = Put(responses, requestId, resp)
                                /\ lastOp' = [op |-> "request", arg |-> requestId, resp |-> resp]
                       ELSE LET resp == [success |-> TRUE, requestId |-> requestId,
                                         paired |-> FALSE]
                            IN  /\ connectionRequests' = reg1
                                /\ waitingQueue' = Append(shifted, requestId)
                                /\ responses' = Put(responses, requestId, resp)
                                /\ lastOp' = [op |-> "request", arg |-> requestId, resp |-> resp]
                                /\ UNCHANGED <<activeChannels, nextChan, created>>
              ELSE LET resp == [success |-> TRUE, requestId |-> requestId,
                                paired |-> FALSE]
                   IN  /\ connectionRequests' = reg1
                       /\ waitingQueue' = Append(waitingQueue, requestId)
                       /\ responses' = Put(responses, requestId, resp)
                       /\ lastOp' = [op |-> "request", arg |-> requestId, resp |-> resp]
                       /\ UNCHANGED <<activeChannels, nextChan, created>>
    /\ UNCHANGED <<now, undisturbed>>

\* GET /api/check-pairing/:requestId
CheckPairing(requestId) ==
    /\ lastOp' = [op |-> "check", arg |-> requestId,
                  resp |-> CheckPairingResponse(connectionRequests, requestId)]
    /\ UNCHANGED <<connectionRequests, waitingQueue, activeChannels, now, nextReq,
                   nextChan, created, responses, arrivals, undisturbed>>

\* POST /api/cancel-connection
CancelConnection(requestId) ==
    /\ connectionRequests' = Delete(connectionRequests, requestId)
    /\ waitingQueue' = RemoveFromQueue(waitingQueue, requestId)
    /\ undisturbed' = FALSE
    /\ lastOp' = [op |-> "cancel", arg |-> requestId, resp |-> [success |-> TRUE]]
    /\ UNCHANGED <<activeChannels, now, nextReq, nextChan, created, responses, arrivals>>

\* POST /api/end-call
EndCall(channelName) ==
    /\ activeChannels' = IF channelName \in DOMAIN activeChannels
                         THEN Delete(activeChannels, channelName)
                         ELSE activeChannels
    /\ undisturbed' = FALSE
    /\ lastOp' = [op |-> "end", arg |-> channelName, resp |-> [success |-> TRUE]]
    /\ UNCHANGED <<connectionRequests, waitingQueue, now, nextReq, nextChan,
                   created, responses, arrivals>>

\* cleanup(), run by setInterval
Cleanup ==
    LET swept == SweepRequests(connectionRequests, waitingQueue, 1, nextReq - 1, now)
        final == SweepChannels(activeChannels, swept.reg, 1, nextChan - 1, now)
    IN  /\ connectionRequests' = final.reg
        /\ waitingQueue' = swept.queue
        /\ activeChannels' = final.chans
        /\ undisturbed' = FALSE
        /\ lastOp' = [op |-> "cleanup",
                      arg |-> [requests |-> DOMAIN connectionRequests \ DOMAIN swept.reg,
                               channels |-> DOMAIN activeChannels \ DOMAIN final.chans],
                      resp |-> NoResp]
        /\ UNCHANGED <<now, nextReq, nextChan, created, responses, arrivals>>

\* the clock advances between handlers
Tick(d) ==
    /\ now + d <= MaxTime
    /\ now' = now + d
    /\ lastOp' = [op |-> "tick", arg |-> now + d, resp |-> NoResp]
    /\ UNCHANGED <<connectionRequests, waitingQueue, activeChannels, nextReq,
                   nextChan, created, responses, arrivals, undisturbed>>

Next ==
    \/ \E u \in {NoUser}, topic \in {1}, built1 \in {TRUE}, built2 \in {TRUE} :
          nextReq <= MaxRequests /\ RequestConnection(u, topic, built1, built2)
    \/ \E requestId \in RequestIds : CheckPairing(requestId)
    \/ \E requestId \in RequestIds : CancelConnection(requestId)
    \/ \E channelName \in ChannelNames : EndCall(channelName)
    \/ Cleanup
    \/ \E d \in TickSteps : Tick(d)

Spec == Init /\ [][Next]_vars

NextInputs ==
    \/ \E u \in UserInputs, topic \in TOPICS, built1 \in BOOLEAN, built2 \in BOOLEAN :
          nextReq <= MaxInputRequests /\ RequestConnection(u, topic, built1, built2)
    \/ \E requestId \in InputRequestIds : CheckPairing(requestId)
    \/ \E requestId \in InputRequestIds : CancelConnection(requestId)
    \/ \E channelName \in InputChannelNames : EndCall(channelName)
    \/ Cleanup
    \/ \E d \in TickSteps : Tick(d)

SpecInputs == Init /\ [][NextInputs]_vars

\* Long runs in which the clock keeps advancing and setInterval keeps calling
\* cleanup.  The clock stops at MaxTime, so arrivals are taken only while a
\* channel they create can still be seen past its maxDuration.
NextLive ==
    \/ \E u \in {NoUser}, topic \in {1}, built1 \in {TRUE}, built2 \in {TRUE} :
          /\ nextReq <= MaxRequests
          /\ now + MAX_DURATION + REQUEST_TIMEOUT <= MaxTime
          /\ RequestConnection(u, topic, built1, built2)
    \/ \E requestId \in RequestIds : CheckPairing(requestId)
    \/ \E requestId \in RequestIds : CancelConnection(requestId)
    \/ \E channelName \in ChannelNames : EndCall(channelName)
    \/ Cleanup
    \/ \E d \in TickSteps : Tick(d)

SpecLive ==
    /\ Init
    /\ [][NextLive]_vars
    /\ WF_vars(Cleanup)
    /\ WF_vars(\E d \in TickSteps : Tick(d))

\* ------------------------------------------------------------ properties
InQueue(id) == \E i \in 1..Len(waitingQueue) : waitingQueue[i] = id
InQueueNext(id) == \E i \in 1..Len(waitingQueue') : waitingQueue'[i] = id
QueueIds == {waitingQueue[i] : i \in 1..Len(waitingQueue)}
IssuedIds == 1..(nextReq - 1)
HasStatus(id, st) == id \in DOMAIN connectionRequests /\ connectionRequests[id].status = st
Ended(i) == created[i].name \notin DOMAIN activeChannels

\* C1: a request identifier is in waitingQueue if and only if connectionRequests
\* holds an entry for it with status 'waiting', in every reachable state.
C1_QueueIffWaiting ==
    \A id \in DOMAIN connectionRequests \cup QueueIds \cup IssuedIds :
        InQueue(id) <=> HasStatus(id, "waiting")

\* a sweep has just run, leaving a waiting request queued beside a paired one
\* and an identifier that has left the registry
C1_Witness ==
    /\ lastOp.op = "cleanup"
    /\ \E id \in IssuedIds : InQueue(id) /\ HasStatus(id, "waiting")
    /\ \E id \in IssuedIds : HasStatus(id, "paired")
    /\ \E id \in IssuedIds : id \notin DOMAIN connectionRequests

\* C2: for every channel in activeChannels, both identifiers of its requests list
\* are in connectionRequests with status 'paired'.
C2_ChannelRequestsPaired ==
    \A c \in DOMAIN activeChannels :
        \A i \in 1..2 : HasStatus(activeChannels[c].requests[i], "paired")

\* C3: after a channel is destroyed, by end-call or by the sweep, both request
\* identifiers it listed are absent from connectionRequests and from waitingQueue.
C3_EndedChannelRequestsGone ==
    \A i \in 1..Len(created) :
        Ended(i) =>
            \A k \in 1..2 :
                /\ created[i].data.requests[k] \notin DOMAIN connectionRequests
                /\ ~InQueue(created[i].data.requests[k])

\* C4: no request identifier appears in the requests list of two different
\* channels, destroyed ones included, and the two identifiers of one channel differ.
C4_NoSharedRequest ==
    \A i \in 1..Len(created) :
        /\ created[i].data.requests[1] # created[i].data.requests[2]
        /\ \A j \in 1..Len(created) :
               i # j => \A k \in 1..2, l \in 1..2 :
                           created[i].data.requests[k] # created[j].data.requests[l]

\* two channels have been created and the first has been destroyed
C4_Witness ==
    /\ Len(created) = 2
    /\ Ended(1)
    /\ ~Ended(2)

\* C5: once an issued request is no longer 'waiting' (paired, cancelled or
\* expired), no later step makes it 'waiting' again or puts it in waitingQueue.
C5_NeverWaitingAgain ==
    [][\A id \in IssuedIds :
          ~HasStatus(id, "waiting") =>
              /\ ~(id \in DOMAIN connectionRequests' /\ connectionRequests'[id].status = "waiting")
              /\ ~InQueueNext(id)]_vars

\* a later arrival has just been enqueued while an earlier request is paired
\* and another has been removed
C5_Witness ==
    /\ lastOp.op = "request"
    /\ ~lastOp.resp.paired
    /\ \E id \in IssuedIds : HasStatus(id, "paired")
    /\ \E id \in IssuedIds : id \notin DOMAIN connectionRequests

\* C6: while no cancel, end-call or sweep has run, the (2k-1)-th and 2k-th
\* arrivals share one channel, slot 1 being the earlier arrival, and when the
\* number of arrivals is odd the last one alone is queued and 'waiting'.
C6_PairedInArrivalOrder ==
    undisturbed =>
        /\ \A k \in 1..(Len(arrivals) \div 2) :
               \E c \in DOMAIN activeChannels :
                   /\ activeChannels[c].requests = <<arrivals[2*k - 1], arrivals[2*k]>>
                   /\ HasStatus(arrivals[2*k - 1], "paired")
                   /\ HasStatus(arrivals[2*k], "paired")
                   /\ connectionRequests[arrivals[2*k - 1]].channelName = c
                   /\ connectionRequests[arrivals[2*k]].channelName = c
        /\ Len(arrivals) % 2 = 1 =>
               /\ waitingQueue = <<arrivals[Len(arrivals)]>>
               /\ HasStatus(arrivals[Len(arrivals)], "waiting")
        /\ Len(arrivals) % 2 = 0 => waitingQueue = <<>>

\* three arrivals and nothing else: one pair, and the third alone in the queue
C6_Witness ==
    /\ undisturbed
    /\ Len(arrivals) = 3
    /\ lastOp.op = "request"

\* C7: right after a sweep at time now, no 'waiting' request older than
\* REQUEST_TIMEOUT is left in connectionRequests or waitingQueue, and no channel
\* older than its maxDuration is left in activeChannels.
C7_SweepEvicts ==
    lastOp.op = "cleanup" =>
        /\ \A id \in DOMAIN connectionRequests :
               ~(/\ connectionRequests[id].status = "waiting"
                 /\ now - connectionRequests[id].timestamp > REQUEST_TIMEOUT)
        /\ \A id \in QueueIds :
               /\ id \in DOMAIN connectionRequests
               /\ ~(now - connectionRequests[id].timestamp > REQUEST_TIMEOUT)
        /\ \A c \in DOMAIN activeChannels :
               ~(now - activeChannels[c].startTime > activeChannels[c].maxDuration)

\* a sweep has just removed an expired request and an expired channel
C7_Witness ==
    /\ lastOp.op = "cleanup"
    /\ lastOp.arg.requests # {}
    /\ lastOp.arg.channels # {}

\* C8: cancelling a requestId that is not in the registry, or ending a
\* channelName that is not in activeChannels, answers success and leaves
\* connectionRequests, waitingQueue and activeChannels unchanged.
C8_AbsentCancelEndNoOp ==
    [][/\ \A id \in RequestIds \cup InputRequestIds :
              (id \notin DOMAIN connectionRequests /\ CancelConnection(id)) =>
                  /\ lastOp'.resp = [success |-> TRUE]
                  /\ UNCHANGED <<connectionRequests, waitingQueue, activeChannels>>
       /\ \A c \in ChannelNames \cup InputChannelNames :
              (c \notin DOMAIN activeChannels /\ EndCall(c)) =>
                  /\ lastOp'.resp = [success |-> TRUE]
                  /\ UNCHANGED <<connectionRequests, waitingQueue, activeChannels>>]_vars

\* a never-issued requestId has just been cancelled while a request waits and
\* a channel is active
C8_Witness ==
    /\ lastOp.op = "cancel"
    /\ lastOp.arg \notin IssuedIds
    /\ waitingQueue # <<>>
    /\ DOMAIN activeChannels # {}

\* C9: a 'paired' request leaves the registry only in a step that also removes
\* its channel; in particular cancel-connection does not remove it.
C9_PairedLeavesOnlyByTeardown ==
    [][\A id \in DOMAIN connectionRequests :
          (connectionRequests[id].status = "paired" /\ id \notin DOMAIN connectionRequests') =>
              /\ connectionRequests[id].channelName \in DOMAIN activeChannels
              /\ connectionRequests[id].channelName \notin DOMAIN activeChannels']_vars

\* C10: for every pairing of arrival B with waiting request A, check-pairing on
\* A, while A is in the registry, answers paired=true with the channelName and
\* topic that B's request-connection response carried.
C10_PollSeesSameChannel ==
    \A i \in 1..Len(created) :
        LET a == created[i].data.requests[1]
            b == created[i].data.requests[2]
            r == CheckPairingResponse(connectionRequests, a)
        IN  a \in DOMAIN connectionRequests =>
                /\ r.success
                /\ r.paired
                /\ r.channelName = responses[b].channelName
                /\ r.topic = responses[b].topic

\* the waiting side has just polled and learnt of its pairing
C10_Witness ==
    /\ lastOp.op = "check"
    /\ lastOp.resp.success
    /\ lastOp.resp.paired
    /\ lastOp.resp.uid = 1
    /\ \E i \in 1..Len(created) :
           /\ created[i].data.requests[1] = lastOp.arg
           /\ responses[created[i].data.requests[2]].paired
           /\ responses[created[i].data.requests[2]].channelName = lastOp.resp.channelName

\* C11: when the first arrival A has left the registry before any pairing (it
\* was cancelled), the queue is empty; and when the next arrival C has just
\* come, C's response is paired=false, C is 'waiting', the queue holds exactly C
\* and no channel exists or was created.
C11_CancelledIsNotPaired ==
    /\ (Len(arrivals) = 1 /\ arrivals[1] \notin DOMAIN connectionRequests) =>
           waitingQueue = <<>>
    /\ (/\ Len(arrivals) = 2
        /\ arrivals[1] \notin DOMAIN connectionRequests
        /\ lastOp.op = "request") =>
           /\ lastOp.arg = arrivals[2]
           /\ ~lastOp.resp.paired
           /\ HasStatus(arrivals[2], "waiting")
           /\ waitingQueue = <<arrivals[2]>>
           /\ DOMAIN activeChannels = {}
           /\ created = <<>>

\* A was cancelled at time 0, where no request can have expired, and C has
\* just arrived
C11_Witness ==
    /\ now = 0
    /\ Len(arrivals) = 2
    /\ arrivals[1] \notin DOMAIN connectionRequests
    /\ lastOp.op = "request"
    /\ waitingQueue = <<arrivals[2]>>

\* C12: with the clock advancing and cleanup running again and again, every
\* channel in activeChannels is eventually absent from it.
C12_ChannelEventuallyGone ==
    \A c \in ChannelNames :
        (c \in DOMAIN activeChannels) ~> (c \notin DOMAIN activeChannels)

\* a sweep has just removed a channel past its maxDuration, and nothing else
C12_Witness ==
    /\ lastOp.op = "cleanup"
    /\ lastOp.arg.channels # {}
    /\ lastOp.arg.requests = {}
    /\ \E i \in 1..Len(created) :
           /\ created[i].name \in lastOp.arg.channels
           /\ now - created[i].data.startTime > created[i].data.maxDuration

\* C13: an arrival that finds a request waiting is paired whether the token
\* builder works or throws for either slot: the response is paired=true, the
\* channel is registered with both requests 'paired', the queue loses its head,
\* and a failed token is the placeholder made of the channel name and the slot.
C13_MintFailureStillPairs ==
    [][\A u \in UserInputs, topic \in TOPICS, built1 \in BOOLEAN, built2 \in BOOLEAN :
          (waitingQueue # <<>> /\ RequestConnection(u, topic, built1, built2)) =>
              LET w == Head(waitingQueue)
                  r == lastOp'.arg
                  c == lastOp'.resp.channelName
              IN  /\ lastOp'.resp.success
                  /\ lastOp'.resp.paired
                  /\ c \notin DOMAIN activeChannels
                  /\ c \in DOMAIN activeChannels'
                  /\ activeChannels'[c].requests = <<w, r>>
                  /\ connectionRequests'[w].status = "paired"
                  /\ connectionRequests'[r].status = "paired"
                  /\ connectionRequests'[w].channelName = c
                  /\ connectionRequests'[r].channelName = c
                  /\ waitingQueue' = Tail(waitingQueue)
                  /\ connectionRequests'[w].token =
                         IF built1 THEN <<"token", c, 1>> ELSE <<"mock_token", c, 1>>
                  /\ connectionRequests'[r].token =
                         IF built2 THEN <<"token", c, 2>> ELSE <<"mock_token", c, 2>>
                  /\ lastOp'.resp.token = connectionRequests'[r].token]_vars

\* a pairing has just completed in which the token of slot 1 was built and the
\* token of slot 2 is the placeholder
C13_Witness ==
    /\ lastOp.op = "request"
    /\ lastOp.resp.paired
    /\ lastOp.resp.token = <<"mock_token", lastOp.resp.channelName, 2>>
    /\ \E id \in DOMAIN connectionRequests :
           /\ connectionRequests[id].status = "paired"
           /\ connectionRequests[id].token = <<"token", lastOp.resp.channelName, 1>>
    /\ lastOp.resp.channelName \in DOMAIN activeChannels

\* C14: check-pairing on a requestId that is not in the registry answers the
\* not-found error (status 404, success false) and leaves connectionRequests,
\* waitingQueue and activeChannels unchanged.
C14_UnknownPollNotFound ==
    [][\A id \in RequestIds \cup InputRequestIds :
          (id \notin DOMAIN connectionRequests /\ CheckPairing(id)) =>
              /\ lastOp'.resp = [success |-> FALSE, code |-> 404,
                                 error |-> "Request not found"]
              /\ UNCHANGED <<connectionRequests, waitingQueue, activeChannels>>]_vars

\* a request that was never paired has left the registry (cancelled, or evicted
\* by the sweep) and has just been polled, while another request is registered
C14_Witness ==
    /\ lastOp.op = "check"
    /\ lastOp.arg \in IssuedIds
    /\ lastOp.arg \notin DOMAIN connectionRequests
    /\ ~lastOp.resp.success
    /\ lastOp.arg \notin DOMAIN responses \/ ~responses[lastOp.arg].paired
    /\ now > REQUEST_TIMEOUT
    /\ DOMAIN connectionRequests # {}

\* C16: right after a pairing the new channel's users are <<W.userId, R.userId>>
\* and its requests <<W, R>>, W being the earlier arrival; W and R are both
\* 'paired' with the channel's name and topic, W with uid 1 and R with uid 2;
\* and a 'waiting' request has no channelName, topic, token or uid.
C16_PairingBindsSlots ==
    /\ (lastOp.op = "request" /\ lastOp.resp.paired) =>
           LET r == lastOp.arg
               c == lastOp.resp.channelName
           IN  /\ c \in DOMAIN activeChannels
               /\ LET w == activeChannels[c].requests[1]
                  IN  /\ activeChannels[c].requests = <<w, r>>
                      /\ w < r
                      /\ HasStatus(w, "paired")
                      /\ HasStatus(r, "paired")
                      /\ activeChannels[c].users =
                             <<connectionRequests[w].userId, connectionRequests[r].userId>>
                      /\ connectionRequests[w].channelName = c
                      /\ connectionRequests[r].channelName = c
                      /\ connectionRequests[w].topic = activeChannels[c].topic
                      /\ connectionRequests[r].topic = activeChannels[c].topic
                      /\ lastOp.resp.topic = activeChannels[c].topic
                      /\ connectionRequests[w].uid = 1
                      /\ connectionRequests[r].uid = 2
                      /\ lastOp.resp.uid = 2
    /\ \A id \in DOMAIN connectionRequests :
           connectionRequests[id].status = "waiting" =>
               DOMAIN connectionRequests[id] \cap {"channelName", "topic", "token", "uid"} = {}

\* a pairing of two callers with different userIds has just completed
C16_Witness ==
    /\ lastOp.op = "request"
    /\ lastOp.resp.paired
    /\ lastOp.resp.channelName \in DOMAIN activeChannels
    /\ activeChannels[lastOp.resp.channelName].users[1] #
           activeChannels[lastOp.resp.channelName].users[2]

\* C17: a sweep leaves in the registry, unchanged, every 'paired' request whose
\* channel is in activeChannels and not past its maxDuration, whatever the
\* request's own age.
C17_SweepKeepsPaired ==
    [][Cleanup =>
          \A id \in DOMAIN connectionRequests :
              (/\ connectionRequests[id].status = "paired"
               /\ connectionRequests[id].channelName \in DOMAIN activeChannels
               /\ now - activeChannels[connectionRequests[id].channelName].startTime
                      <= activeChannels[connectionRequests[id].channelName].maxDuration) =>
                  /\ id \in DOMAIN connectionRequests'
                  /\ connectionRequests'[id] = connectionRequests[id]]_vars

\* a sweep has just run over a 'paired' request older than REQUEST_TIMEOUT whose
\* channel is still active
C17_Witness ==
    /\ lastOp.op = "cleanup"
    /\ \E id \in DOMAIN connectionRequests :
           /\ connectionRequests[id].status = "paired"
           /\ now - connectionRequests[id].timestamp > REQUEST_TIMEOUT
           /\ connectionRequests[id].channelName \in DOMAIN activeChannels

\* C18: a sweep at time now leaves unchanged every channel with
\* now - startTime <= maxDuration and every 'waiting' request with
\* now - timestamp <= REQUEST_TIMEOUT, equality included, and keeps the queue
\* entry of such a request.
C18_SweepIsStrict ==
    [][Cleanup =>
          /\ \A c \in DOMAIN activeChannels :
                 now - activeChannels[c].startTime <= activeChannels[c].maxDuration =>
                     /\ c \in DOMAIN activeChannels'
                     /\ activeChannels'[c] = activeChannels[c]
          /\ \A id \in DOMAIN connectionRequests :
                 (/\ connectionRequests[id].status = "waiting"
                  /\ now - connectionRequests[id].timestamp <= REQUEST_TIMEOUT) =>
                     /\ id \in DOMAIN connectionRequests'
                     /\ connectionRequests'[id] = connectionRequests[id]
                     /\ InQueue(id) => InQueueNext(id)]_vars

\* a sweep has just run over a channel aged exactly maxDuration and a queued
\* 'waiting' request aged exactly REQUEST_TIMEOUT, and both are still there
C18_Witness ==
    /\ lastOp.op = "cleanup"
    /\ \E c \in DOMAIN activeChannels :
           now - activeChannels[c].startTime = activeChannels[c].maxDuration
    /\ \E id \in DOMAIN connectionRequests :
           /\ connectionRequests[id].status = "waiting"
           /\ now - connectionRequests[id].timestamp = REQUEST_TIMEOUT
           /\ InQueue(id)

\* C19: every channel has exactly two participants, and the userId of slot 1
\* differs from the userId of slot 2.
C19_DistinctCallers ==
    \A i \in 1..Len(created) :
        /\ Len(created[i].data.users) = 2
        /\ created[i].data.users[1] # created[i].data.users[2]

\* C20: between operations waitingQueue holds at most one request identifier,
\* and never the same identifier twice.
C20_QueueAtMostOne ==
    /\ Len(waitingQueue) <= 1
    /\ \A i \in 1..Len(waitingQueue), j \in 1..Len(waitingQueue) :
           waitingQueue[i] = waitingQueue[j] => i = j

\* an arrival has just been enqueued after an earlier pair was made: it found
\* nobody waiting
C20_Witness ==
    /\ lastOp.op = "request"
    /\ ~lastOp.resp.paired
    /\ waitingQueue = <<lastOp.arg>>
    /\ Len(created) >= 1
    /\ Len(arrivals) >= 3

====
